---- MODULE Spec2Model ----
(***************************************************************************)
(* CircularHistory (src/src/circular-history.js, lines 1-224): a fixed     *)
(* capacity history buffer with a cursor (pointer), a navigation window    *)
(* (navigatedItemsCount, navigationUpperBound) and a circular slot array.  *)
(*                                                                         *)
(* JavaScript values are modelled as records [kind, id]; `typeof` is the   *)
(* operator TypeOf.  The number -0, which `-1 % 1` yields in JavaScript,   *)
(* is the integer 0 here: both differ from -1 and both address slot 0.     *)
(***************************************************************************)
EXTENDS Integers, Sequences, FiniteSets, TLC

\* ------------------------------------------------------------------ bounds
MaxCapacity == 4
MaxPointer == 4
NumValues == 2
MaxNav == 4
MaxPairCapacity == 2
MaxPairPointer == 2

\* --------------------------------------------------------------- JS values
Undefined == [kind |-> "undefined", id |-> 0]
Null == [kind |-> "null", id |-> 0]

\* typeof value
TypeOf(value) == IF value.kind = "null" THEN "object" ELSE value.kind

ALLOWED_DATA_TYPES == {"number", "string", "bigint", "boolean", "symbol", "object"}
NAVIGATION_LOWER_BOUND == 0
EMPTY_POINTER == -1

\* FLAGS.empty is Symbol("empty"), a value of type symbol
FLAGS == [empty |-> [kind |-> "symbol", id |-> 0]]

\* the values a caller may pass to commit
Values ==
    {[kind |-> "number", id |-> i] : i \in 1..NumValues}
    \cup {[kind |-> k, id |-> 1] : k \in {"string", "bigint", "boolean", "symbol", "object", "function"}}
    \cup {FLAGS.empty, Null, Undefined}

\* ------------------------------------------------------------------- utils
isTypeAllowed(type) == type \in ALLOWED_DATA_TYPES

isValueTypeAllowed(value) ==
    LET valueType == TypeOf(value)
        isObject == valueType = "object" /\ value # Null
    IN  isObject \/ isTypeAllowed(valueType)

\* canCommit that does not compare the value's type with the dataType
canCommit_AllowedOnly(value, dataType) == isValueTypeAllowed(value)

canCommit(value, dataType) == isValueTypeAllowed(value) /\ TypeOf(value) = dataType

isItemEmpty(slot) == slot = Undefined

\* the % operator of JavaScript: the result takes the sign of the dividend
JsRem(a, b) == IF a >= 0 THEN a % b ELSE -((-a) % b)

\* makeIndex that counts slots from one
makeIndex_FromOne(pointer, capacity) == JsRem(pointer + 1, capacity)

makeIndex(pointer, capacity) == JsRem(pointer, capacity)

\* ------------------------------------------------------------------- state
VARIABLES
    state,       \* the private state of the instance (STATE.get(this) in the source)
    lastOp,      \* the operation that produced this state
    lastArg,     \* the value that operation stored (Undefined if it stored none)
    threw,       \* TRUE iff that operation threw
    pre,         \* the private state before that operation
    run,         \* scenario tracker: commits on a fresh history, then
                 \* moveBackward calls, then moveForward calls
    sinceCommit, \* tracker: last successful commit followed by moveForward only
    sinceClear,  \* TRUE after clear() while only navigation has followed
    backsAfter,  \* tracker: moveBackward calls directly after a commit
    redo,        \* tracker: what the last commit found ahead of the cursor
    trip,        \* tracker: moveBackward from the oldest entry, then moveForward
    fresh,       \* tracker: navigation on a fresh history, then the first commit
    walk,        \* tracker: the surviving entries, and moveForward calls from Empty
    sat,         \* tracker: whether navigatedItemsCount had reached capacity - 1
    hist,        \* tracker: the largest cursor reached and the live entries
    ret,         \* the value that operation returned (Undefined if none)
    shadow,      \* a freshly constructed instance driven in step since clear()
    dumped,      \* the array the last dump() call handed to the caller
    written,     \* the slots committed to since construction or clear()
    observe,     \* what the observation system follows: "results" or "rejections"
    other,       \* the private state of a second instance (Undefined if there is none)
    acted        \* the instance that operation was called on: 1 (state) or 2 (other)

vars == <<state, lastOp, lastArg, threw, pre, run, sinceCommit, sinceClear, backsAfter, redo, trip,
          fresh, walk, sat, hist, ret, shadow, dumped, written, observe, other, acted>>

\* the scenario trackers, and the variables only the observation system uses
trackers == <<run, sinceCommit, sinceClear, backsAfter, redo, trip, fresh, walk, sat, hist>>
obsVars == <<shadow, dumped, written, observe>>
pairVars == <<other, acted>>

\* new Array(capacity)
NewArray(capacity) == [i \in 0..(capacity - 1) |-> Undefined]

\* function CircularHistory(capacity, dataType), for valid arguments
CircularHistory(capacity, dataType) ==
    [navigationUpperBound |-> NAVIGATION_LOWER_BOUND,
     navigatedItemsCount  |-> NAVIGATION_LOWER_BOUND,
     pointer              |-> EMPTY_POINTER,
     capacity             |-> capacity,
     dataType             |-> dataType,
     buffer               |-> NewArray(capacity)]

\* ------------------------------------------------------- operations (pure)
\* commit that stops writing once every slot is used instead of wrapping
commit_DropsWhenFull(self, value) ==
    LET capacity == self.capacity
        count == IF self.navigatedItemsCount = capacity - 1
                 THEN capacity - 1
                 ELSE self.navigatedItemsCount + 1
        pointer == self.pointer + 1
    IN  IF pointer >= capacity
        THEN [self EXCEPT !.navigationUpperBound = count,
                          !.navigatedItemsCount = count,
                          !.pointer = pointer]
        ELSE [self EXCEPT !.navigationUpperBound = count,
                          !.navigatedItemsCount = count,
                          !.pointer = pointer,
                          !.buffer[makeIndex(pointer, capacity)] = value]

\* commit that wipes the slot after the one it writes
commit_ClearsAhead(self, value) ==
    LET capacity == self.capacity
        count == IF self.navigatedItemsCount = capacity - 1
                 THEN capacity - 1
                 ELSE self.navigatedItemsCount + 1
        pointer == self.pointer + 1
    IN  [self EXCEPT !.navigationUpperBound = count,
                     !.navigatedItemsCount = count,
                     !.pointer = pointer,
                     !.buffer = [i \in 0..(capacity - 1) |->
                                   IF i = makeIndex(pointer, capacity) THEN value
                                   ELSE IF i = makeIndex(pointer + 1, capacity) THEN Undefined
                                   ELSE self.buffer[i]]]

\* commit that only ever widens the navigation window
commit_KeepsUpperBound(self, value) ==
    LET capacity == self.capacity
        count == IF self.navigatedItemsCount = capacity - 1
                 THEN capacity - 1
                 ELSE self.navigatedItemsCount + 1
        pointer == self.pointer + 1
    IN  [self EXCEPT !.navigationUpperBound =
                         IF self.navigationUpperBound > count
                         THEN self.navigationUpperBound ELSE count,
                     !.navigatedItemsCount = count,
                     !.pointer = pointer,
                     !.buffer[makeIndex(pointer, capacity)] = value]

\* CircularHistory.prototype.commit, after the type check
commit(self, value) ==
    LET capacity == self.capacity
        count == IF self.navigatedItemsCount = capacity - 1
                 THEN capacity - 1
                 ELSE self.navigatedItemsCount + 1
        pointer == self.pointer + 1
    IN  [self EXCEPT !.navigationUpperBound = count,
                     !.navigatedItemsCount = count,
                     !.pointer = pointer,
                     !.buffer[makeIndex(pointer, capacity)] = value]

\* commit that hands the committed value back to the caller
commitResult_Value(self, value) == value

\* what commit returns: the function has no return statement
commitResult(self, value) == Undefined

\* current that reads the slot after the cursor
current_Next(self) ==
    IF self.pointer = EMPTY_POINTER THEN FLAGS.empty
    ELSE LET nextItem == self.buffer[makeIndex(self.pointer + 1, self.capacity)]
         IN  IF isItemEmpty(nextItem) THEN FLAGS.empty ELSE nextItem

current(self) ==
    IF self.pointer = EMPTY_POINTER THEN FLAGS.empty
    ELSE LET nextItem == self.buffer[makeIndex(self.pointer, self.capacity)]
         IN  IF isItemEmpty(nextItem) THEN FLAGS.empty ELSE nextItem

\* moveBackward that moves the pointer but forgets navigatedItemsCount
\* moveBackward without the separate step from cursor 0 to -1
moveBackward_NoEmptyStep(self) ==
    IF self.navigatedItemsCount = NAVIGATION_LOWER_BOUND \/ self.pointer = EMPTY_POINTER
    THEN self
    ELSE [self EXCEPT !.pointer = self.pointer - 1,
                      !.navigatedItemsCount = self.navigatedItemsCount - 1]

\* moveBackward that empties the slot it leaves
moveBackward_DropsEntry(self) ==
    IF self.pointer = EMPTY_POINTER + 1
    THEN [self EXCEPT !.pointer = EMPTY_POINTER]
    ELSE IF self.navigatedItemsCount = NAVIGATION_LOWER_BOUND \/ self.pointer = EMPTY_POINTER
         THEN self
         ELSE [self EXCEPT !.pointer = self.pointer - 1,
                           !.navigatedItemsCount = self.navigatedItemsCount - 1,
                           !.buffer[makeIndex(self.pointer, self.capacity)] = Undefined]

moveBackward_KeepsCount(self) ==
    IF self.pointer = EMPTY_POINTER + 1
    THEN [self EXCEPT !.pointer = EMPTY_POINTER]
    ELSE IF self.navigatedItemsCount = NAVIGATION_LOWER_BOUND \/ self.pointer = EMPTY_POINTER
         THEN self
         ELSE [self EXCEPT !.pointer = self.pointer - 1]

moveBackward(self) ==
    IF self.pointer = EMPTY_POINTER + 1
    THEN [self EXCEPT !.pointer = EMPTY_POINTER]
    ELSE IF self.navigatedItemsCount = NAVIGATION_LOWER_BOUND \/ self.pointer = EMPTY_POINTER
         THEN self
         ELSE [self EXCEPT !.pointer = self.pointer - 1,
                           !.navigatedItemsCount = self.navigatedItemsCount - 1]

\* moveForward without the check for the upper bound of the window
moveForward_NoUpperBound(self) ==
    IF self.pointer = EMPTY_POINTER /\ self.navigationUpperBound > NAVIGATION_LOWER_BOUND
    THEN [self EXCEPT !.pointer = EMPTY_POINTER + 1]
    ELSE [self EXCEPT !.pointer = self.pointer + 1,
                      !.navigatedItemsCount = self.navigatedItemsCount + 1]

\* moveForward that leaves the empty state even when nothing was committed
moveForward_AlwaysRecovers(self) ==
    IF self.pointer = EMPTY_POINTER
    THEN [self EXCEPT !.pointer = EMPTY_POINTER + 1]
    ELSE IF self.navigatedItemsCount = self.navigationUpperBound
         THEN self
         ELSE [self EXCEPT !.pointer = self.pointer + 1,
                           !.navigatedItemsCount = self.navigatedItemsCount + 1]

moveForward(self) ==
    IF self.pointer = EMPTY_POINTER /\ self.navigationUpperBound > NAVIGATION_LOWER_BOUND
    THEN [self EXCEPT !.pointer = EMPTY_POINTER + 1]
    ELSE IF self.navigatedItemsCount = self.navigationUpperBound
         THEN self
         ELSE [self EXCEPT !.pointer = self.pointer + 1,
                           !.navigatedItemsCount = self.navigatedItemsCount + 1]

\* clear that leaves the navigation window as it was
clear_KeepsUpperBound(self) ==
    [self EXCEPT !.pointer = EMPTY_POINTER,
                 !.navigatedItemsCount = 0,
                 !.buffer = NewArray(self.capacity)]

clear(self) ==
    [self EXCEPT !.navigatedItemsCount = NAVIGATION_LOWER_BOUND,
                 !.navigationUpperBound = NAVIGATION_LOWER_BOUND,
                 !.pointer = EMPTY_POINTER,
                 !.buffer = NewArray(self.capacity)]

\* [...self.buffer] as a sequence (index i of the array is element i+1)
Spread(buffer, capacity) == [i \in 1..capacity |-> buffer[i - 1]]

\* dump that returns self.buffer itself when it does not filter
dumpShares_NoCopy(discardHoles) == ~discardHoles

\* whether the array dump returns is self.buffer itself: [...self.buffer] and
\* filter each build a new array
dumpShares(discardHoles) == FALSE

dump(self, discardHoles) ==
    LET result == Spread(self.buffer, self.capacity)
    IN  IF discardHoles THEN SelectSeq(result, LAMBDA slot : ~isItemEmpty(slot)) ELSE result

getCurrentIndex(self) == makeIndex(self.pointer, self.capacity)

isStartReached(self) ==
    self.navigatedItemsCount = NAVIGATION_LOWER_BOUND \/ self.pointer = EMPTY_POINTER

isEndReached(self) == self.navigatedItemsCount = self.navigationUpperBound

\* what the public methods show of a history
Observed(self) ==
    [current |-> current(self),
     index |-> getCurrentIndex(self),
     start |-> isStartReached(self),
     end |-> isEndReached(self),
     all |-> dump(self, FALSE),
     entries |-> dump(self, TRUE)]

\* ---------------------------------------------------------------- trackers
NoRun == [phase |-> "off", vals |-> <<>>, backs |-> 0, fwds |-> 0]
NoCommit == [active |-> FALSE, value |-> Undefined, index |-> -1, fwds |-> 0, ahead |-> FALSE]
NoBacks == [active |-> FALSE, count |-> 0, window |-> 0]
NoRedo == [active |-> FALSE, k |-> 0, window |-> 0]
NoTrip == [stage |-> "none", entry |-> Undefined]
NoFresh == [stage |-> "off", back |-> FALSE, fwd |-> FALSE, value |-> Undefined]
NoShadow == [active |-> FALSE, self |-> CircularHistory(1, "number"),
             ret |-> Undefined, threw |-> FALSE]
NoDump == [active |-> FALSE, array |-> <<>>, shares |-> FALSE]

\* the second instance after an operation that left it as self, returned r
\* and threw iff t
ShadowAfter(self, r, t) ==
    IF shadow.active
    THEN [active |-> TRUE, self |-> self, ret |-> r, threw |-> t]
    ELSE NoShadow

\* what a caller may store into an array it got from dump: not a value any
\* history accepts, so it is told apart from every entry
MutationValue == [kind |-> "function", id |-> 2]

\* the cursor is on the oldest navigable entry: moveBackward reaches no older value
OnOldest(self) ==
    /\ self.pointer >= 0
    /\ self.pointer = 0 \/ self.navigatedItemsCount = NAVIGATION_LOWER_BOUND

NoWalk == [on |-> FALSE, log |-> <<>>, stage |-> "off", steps |-> 0]
NoSat == [ever |-> FALSE, held |-> FALSE]

\* the entries a walk from the oldest to the newest cursor position meets:
\* a commit at cursor position p replaces what was at p and beyond.  Kept
\* until the cursor passes the last slot, when old positions are overwritten.
WalkCommit(self, value) ==
    IF walk.on /\ self.pointer + 1 < self.capacity /\ self.pointer + 1 <= Len(walk.log)
    THEN [on |-> TRUE,
          log |-> Append(SubSeq(walk.log, 1, self.pointer + 1), value),
          stage |-> "off", steps |-> 0]
    ELSE NoWalk

\* moveBackward calls until getCurrentIndex() is -1
WalkBackward(after) ==
    [walk EXCEPT !.stage = IF getCurrentIndex(after) = -1 /\ walk.log # <<>>
                           THEN "empty" ELSE "off",
                 !.steps = 0]

\* moveForward calls from there
WalkForward ==
    IF walk.stage \in {"empty", "fwd"} /\ walk.steps < MaxNav
    THEN [walk EXCEPT !.stage = "fwd", !.steps = walk.steps + 1]
    ELSE [walk EXCEPT !.stage = "off", !.steps = 0]

\* before the next operation: whether navigatedItemsCount has been
\* capacity - 1 in a state since construction or clear (ever), and whether
\* it has been so with no moveBackward or clear since (held)
SatNext ==
    [ever |-> (sat.ever /\ lastOp # "clear")
              \/ state.navigatedItemsCount = state.capacity - 1,
     held |-> (sat.held /\ lastOp \notin {"moveBackward", "clear"})
              \/ state.navigatedItemsCount = state.capacity - 1]

\* no cursor position reached, no entry
NoHist == [top |-> -1, live |-> [q \in {} |-> Undefined]]

\* a commit that moves the cursor to position p: the entries at p and
\* beyond are discarded, the entry at p - capacity is overwritten, and the
\* value is the entry at p
HistCommit(self, value) ==
    LET p == self.pointer + 1
        kept == {q \in DOMAIN hist.live : q < p /\ q # p - self.capacity}
    IN  [top |-> IF p > hist.top THEN p ELSE hist.top,
         live |-> [q \in kept \cup {p} |-> IF q = p THEN value ELSE hist.live[q]]]

FreshBackward ==
    IF fresh.stage \in {"new", "nav"}
    THEN [fresh EXCEPT !.stage = "nav", !.back = TRUE]
    ELSE NoFresh

FreshForward ==
    IF fresh.stage \in {"new", "nav"}
    THEN [fresh EXCEPT !.stage = "nav", !.fwd = TRUE]
    ELSE NoFresh

FreshCommit(value) ==
    IF fresh.stage \in {"new", "nav"}
    THEN [fresh EXCEPT !.stage = "commit", !.value = value]
    ELSE NoFresh

RunCommit(value) ==
    IF run.phase = "commits" THEN [run EXCEPT !.vals = Append(run.vals, value)] ELSE NoRun

RunBackward ==
    IF run.phase \in {"commits", "back"} /\ Len(run.vals) > 0 /\ run.backs < MaxNav
    THEN [run EXCEPT !.phase = "back", !.backs = run.backs + 1]
    ELSE NoRun

RunForward ==
    IF run.phase \in {"commits", "back", "fwd"} /\ Len(run.vals) > 0 /\ run.fwds < MaxNav
    THEN [run EXCEPT !.phase = "fwd", !.fwds = run.fwds + 1]
    ELSE NoRun

\* ------------------------------------------------------------------ system
Init ==
    /\ \E capacity \in 1..MaxCapacity, dataType \in ALLOWED_DATA_TYPES :
          state = CircularHistory(capacity, dataType)
    /\ lastOp = "new"
    /\ lastArg = Undefined
    /\ threw = FALSE
    /\ pre = state
    /\ run = [phase |-> "commits", vals |-> <<>>, backs |-> 0, fwds |-> 0]
    /\ sinceCommit = NoCommit
    /\ sinceClear = FALSE
    /\ backsAfter = NoBacks
    /\ redo = NoRedo
    /\ trip = NoTrip
    /\ fresh = [stage |-> "new", back |-> FALSE, fwd |-> FALSE, value |-> Undefined]
    /\ walk = [on |-> TRUE, log |-> <<>>, stage |-> "off", steps |-> 0]
    /\ sat = NoSat
    /\ hist = NoHist
    /\ ret = Undefined
    /\ shadow = NoShadow
    /\ dumped = NoDump
    /\ written = {}
    /\ observe = "none"
    /\ other = Undefined
    /\ acted = 1

\* history.commit(value) with a value the type check rejects: throws
CommitThrow ==
    /\ {value \in Values : ~canCommit(value, state.dataType)} # {}
    /\ lastOp' = "commit"
    /\ lastArg' = Undefined
    /\ threw' = TRUE
    /\ pre' = state
    /\ ret' = Undefined
    /\ sat' = SatNext
    /\ UNCHANGED <<state, run, sinceCommit, sinceClear, backsAfter, redo, trip, fresh, walk, hist>>
    /\ UNCHANGED <<obsVars, pairVars>>

\* history.commit(value) with a value the type check accepts
Commit ==
    \E value \in Values :
        /\ canCommit(value, state.dataType)
        /\ state.pointer < MaxPointer
        /\ state' = commit(state, value)
        /\ lastOp' = "commit"
        /\ lastArg' = value
        /\ threw' = FALSE
        /\ pre' = state
        /\ run' = RunCommit(value)
        /\ sinceCommit' = [active |-> TRUE, value |-> value,
                           index |-> getCurrentIndex(state'), fwds |-> 0,
                           ahead |-> state.navigatedItemsCount < state.navigationUpperBound]
        /\ sinceClear' = FALSE
        /\ backsAfter' = [active |-> TRUE, count |-> 0,
                          window |-> state'.navigatedItemsCount]
        /\ redo' = IF backsAfter.active
                   THEN [active |-> TRUE, k |-> backsAfter.count, window |-> backsAfter.window]
                   ELSE NoRedo
        /\ trip' = NoTrip
        /\ fresh' = FreshCommit(value)
        /\ walk' = WalkCommit(state, value)
        /\ sat' = SatNext
        /\ hist' = HistCommit(state, value)
        /\ ret' = commitResult(state, value)
        /\ UNCHANGED <<obsVars, pairVars>>

MoveBackward ==
    /\ state' = moveBackward(state)
    /\ lastOp' = "moveBackward"
    /\ lastArg' = Undefined
    /\ threw' = FALSE
    /\ pre' = state
    /\ run' = RunBackward
    /\ sinceCommit' = NoCommit
    /\ backsAfter' = IF backsAfter.active /\ backsAfter.count < MaxNav
                     THEN [backsAfter EXCEPT !.count = backsAfter.count + 1]
                     ELSE NoBacks
    /\ trip' = IF OnOldest(state)
               THEN [stage |-> "back", entry |-> current(state)]
               ELSE NoTrip
    /\ redo' = NoRedo
    /\ fresh' = FreshBackward
    /\ walk' = WalkBackward(state')
    /\ sat' = SatNext
    /\ UNCHANGED hist
    /\ ret' = Undefined
    /\ UNCHANGED sinceClear
    /\ UNCHANGED <<obsVars, pairVars>>

MoveForward ==
    /\ state' = moveForward(state)
    /\ lastOp' = "moveForward"
    /\ lastArg' = Undefined
    /\ threw' = FALSE
    /\ pre' = state
    /\ run' = RunForward
    /\ sinceCommit' = IF sinceCommit.active /\ sinceCommit.fwds < MaxNav
                      THEN [sinceCommit EXCEPT !.fwds = sinceCommit.fwds + 1]
                      ELSE NoCommit
    /\ backsAfter' = NoBacks
    /\ trip' = IF trip.stage = "back" THEN [trip EXCEPT !.stage = "fwd"] ELSE NoTrip
    /\ redo' = NoRedo
    /\ fresh' = FreshForward
    /\ walk' = WalkForward
    /\ sat' = SatNext
    /\ UNCHANGED hist
    /\ ret' = Undefined
    /\ UNCHANGED sinceClear
    /\ UNCHANGED <<obsVars, pairVars>>

Clear ==
    /\ state' = clear(state)
    /\ lastOp' = "clear"
    /\ lastArg' = Undefined
    /\ threw' = FALSE
    /\ pre' = state
    /\ run' = NoRun
    /\ sinceCommit' = NoCommit
    /\ sinceClear' = TRUE
    /\ backsAfter' = NoBacks
    /\ trip' = NoTrip
    /\ redo' = NoRedo
    /\ fresh' = NoFresh
    /\ walk' = [on |-> TRUE, log |-> <<>>, stage |-> "off", steps |-> 0]
    /\ sat' = SatNext
    /\ hist' = NoHist
    /\ ret' = Undefined
    /\ UNCHANGED <<obsVars, pairVars>>

Next == Commit \/ CommitThrow \/ MoveBackward \/ MoveForward \/ Clear

Spec == Init /\ [][Next]_vars


\* ------------------------------------------------- observation system
\* The same object with every public method as a step, the results of the
\* reading methods recorded in ret, the rejected argument of a failed commit
\* recorded in lastArg, and, from clear() on, a freshly constructed instance
\* of the same capacity and dataType taking the same calls.
InitObserving(what) ==
    /\ \E capacity \in 1..MaxCapacity, dataType \in ALLOWED_DATA_TYPES :
           state = CircularHistory(capacity, dataType)
    /\ lastOp = "new"
    /\ lastArg = Undefined
    /\ threw = FALSE
    /\ pre = state
    /\ run = NoRun
    /\ sinceCommit = NoCommit
    /\ sinceClear = FALSE
    /\ backsAfter = NoBacks
    /\ redo = NoRedo
    /\ trip = NoTrip
    /\ fresh = NoFresh
    /\ walk = NoWalk
    /\ sat = NoSat
    /\ hist = NoHist
    /\ ret = Undefined
    /\ shadow = NoShadow
    /\ dumped = NoDump
    /\ written = {}
    /\ observe = what
    /\ other = Undefined
    /\ acted = 1

InitObs == InitObserving("results")

InitReject == InitObserving("rejections")

\* the arguments failed commits are tried with: every value when rejections
\* are followed, otherwise undefined alone, which every dataType rejects
Rejectable == IF observe = "rejections" THEN Values ELSE {Undefined}

\* a method call that reads: the object stays as it is
Read(op, arg, result, shadowResult) ==
    /\ lastOp' = op
    /\ lastArg' = arg
    /\ threw' = FALSE
    /\ pre' = state
    /\ ret' = result
    /\ shadow' = ShadowAfter(shadow.self, shadowResult, FALSE)
    /\ UNCHANGED <<state, written, observe>>
    /\ UNCHANGED <<trackers, pairVars>>

ObsCommitThrow ==
    \E value \in Rejectable :
        /\ ~canCommit(value, state.dataType)
        /\ lastOp' = "commit"
        /\ lastArg' = value
        /\ threw' = TRUE
        /\ pre' = state
        /\ ret' = Undefined
        /\ shadow' = IF canCommit(value, shadow.self.dataType)
                     THEN ShadowAfter(commit(shadow.self, value),
                                      commitResult(shadow.self, value), FALSE)
                     ELSE ShadowAfter(shadow.self, Undefined, TRUE)
        /\ dumped' = NoDump
        /\ UNCHANGED <<state, written, observe>>
        /\ UNCHANGED <<trackers, pairVars>>

ObsCommit ==
    \E value \in Values :
        /\ canCommit(value, state.dataType)
        /\ state.pointer < MaxPointer
        /\ state' = commit(state, value)
        /\ lastOp' = "commit"
        /\ lastArg' = value
        /\ threw' = FALSE
        /\ pre' = state
        /\ ret' = commitResult(state, value)
        /\ shadow' = IF canCommit(value, shadow.self.dataType)
                     THEN ShadowAfter(commit(shadow.self, value),
                                      commitResult(shadow.self, value), FALSE)
                     ELSE ShadowAfter(shadow.self, Undefined, TRUE)
        /\ dumped' = NoDump
        /\ written' = written \cup {makeIndex(state.pointer + 1, state.capacity)}
        /\ UNCHANGED observe
        /\ UNCHANGED <<trackers, pairVars>>

ObsMoveBackward ==
    /\ state' = moveBackward(state)
    /\ lastOp' = "moveBackward"
    /\ lastArg' = Undefined
    /\ threw' = FALSE
    /\ pre' = state
    /\ ret' = Undefined
    /\ shadow' = ShadowAfter(moveBackward(shadow.self), Undefined, FALSE)
    /\ dumped' = NoDump
    /\ UNCHANGED <<written, observe>>
    /\ UNCHANGED <<trackers, pairVars>>

ObsMoveForward ==
    /\ state' = moveForward(state)
    /\ lastOp' = "moveForward"
    /\ lastArg' = Undefined
    /\ threw' = FALSE
    /\ pre' = state
    /\ ret' = Undefined
    /\ shadow' = ShadowAfter(moveForward(shadow.self), Undefined, FALSE)
    /\ dumped' = NoDump
    /\ UNCHANGED <<written, observe>>
    /\ UNCHANGED <<trackers, pairVars>>

ObsClear ==
    /\ state' = clear(state)
    /\ lastOp' = "clear"
    /\ lastArg' = Undefined
    /\ threw' = FALSE
    /\ pre' = state
    /\ ret' = Undefined
    /\ shadow' = IF observe = "results"
                 THEN [active |-> TRUE,
                       self |-> CircularHistory(state.capacity, state.dataType),
                       ret |-> Undefined, threw |-> FALSE]
                 ELSE NoShadow
    /\ dumped' = NoDump
    /\ written' = {}
    /\ UNCHANGED observe
    /\ UNCHANGED <<trackers, pairVars>>

ObsCurrent ==
    /\ Read("current", Undefined, current(state), current(shadow.self))
    /\ dumped' = NoDump

ObsDump ==
    \E discardHoles \in BOOLEAN :
        /\ Read("dump", discardHoles, dump(state, discardHoles),
                dump(shadow.self, discardHoles))
        /\ dumped' = [active |-> TRUE,
                      array |-> dump(state, discardHoles),
                      shares |-> dumpShares(discardHoles)]

\* the caller assigns to an element of the array dump has just returned; if
\* that array is self.buffer the assignment lands in the history
ObsMutateDumped ==
    /\ dumped.active
    /\ lastOp = "dump"
    /\ \E i \in 1..Len(dumped.array) :
           /\ dumped.array[i] # MutationValue
           /\ dumped' = [dumped EXCEPT !.array[i] = MutationValue]
           /\ state' = IF dumped.shares
                       THEN [state EXCEPT !.buffer[i - 1] = MutationValue]
                       ELSE state
    /\ lastOp' = "mutate"
    /\ lastArg' = Undefined
    /\ threw' = FALSE
    /\ pre' = state
    /\ ret' = Undefined
    /\ shadow' = ShadowAfter(shadow.self, Undefined, FALSE)
    /\ UNCHANGED <<written, observe>>
    /\ UNCHANGED <<trackers, pairVars>>

ObsGetCurrentIndex ==
    /\ Read("getCurrentIndex", Undefined, getCurrentIndex(state),
            getCurrentIndex(shadow.self))
    /\ dumped' = NoDump

ObsIsStartReached ==
    /\ Read("isStartReached", Undefined, isStartReached(state),
            isStartReached(shadow.self))
    /\ dumped' = NoDump

ObsIsEndReached ==
    /\ Read("isEndReached", Undefined, isEndReached(state),
            isEndReached(shadow.self))
    /\ dumped' = NoDump

NextObs ==
    \/ ObsCommit
    \/ ObsCommitThrow
    \/ ObsMoveBackward
    \/ ObsMoveForward
    \/ ObsClear
    \/ ObsCurrent
    \/ ObsDump
    \/ ObsMutateDumped
    \/ ObsGetCurrentIndex
    \/ ObsIsStartReached
    \/ ObsIsEndReached

SpecObs == InitObs /\ [][NextObs]_vars

SpecReject == InitReject /\ [][NextObs]_vars

\* ------------------------------------------------- construction system
\* The arguments of new CircularHistory(capacity, dataType) as the caller
\* passes them: any JavaScript value.  A number is held in tenths (35 is
\* 3.5), NaN is the number with str "NaN", a string is held in str.
Num(tenths) == [kind |-> "number", tenths |-> tenths, str |-> ""]
NaN == [kind |-> "number", tenths |-> 0, str |-> "NaN"]
Str(str) == [kind |-> "string", tenths |-> 0, str |-> str]
ArgNull == [kind |-> "null", tenths |-> 0, str |-> ""]
ArgUndefined == [kind |-> "undefined", tenths |-> 0, str |-> ""]

\* typeof argument
TypeOfArg(arg) == IF arg.kind = "null" THEN "object" ELSE arg.kind

\* Number.isInteger(argument)
NumberIsInteger(arg) == arg.kind = "number" /\ arg # NaN /\ arg.tenths % 10 = 0

\* argument <= 0 for a number: every comparison with NaN is false
LessOrEqualZero(arg) == arg # NaN /\ arg.tenths <= 0

\* ALLOWED_DATA_TYPES.includes(argument): only a string is strictly equal
\* to an element
includesDataType(arg) == arg.kind = "string" /\ isTypeAllowed(arg.str)

CapacityArgs ==
    {Num(10 * n) : n \in -1..MaxCapacity}
    \cup {Num(-50), Num(5), Num(35), NaN, Str("10"), Str("number"), ArgNull, ArgUndefined}

DataTypeArgs ==
    {Str(t) : t \in ALLOWED_DATA_TYPES \cup {"invalidType", "function", "undefined", "Number"}}
    \cup {Num(1230), ArgNull, ArgUndefined}

\* the constructor without the Number.isInteger test
New_NoIntegerCheck(capacity, dataType) ==
    IF TypeOfArg(capacity) # "number" \/ LessOrEqualZero(capacity)
    THEN [threw |-> TRUE, self |-> Undefined]
    ELSE IF ~includesDataType(dataType)
         THEN [threw |-> TRUE, self |-> Undefined]
         ELSE [threw |-> FALSE, self |-> CircularHistory(capacity.tenths \div 10, dataType.str)]

\* new CircularHistory(capacity, dataType): the outcome, and the private
\* state stored for the new object (Undefined when nothing is stored)
New(capacity, dataType) ==
    IF TypeOfArg(capacity) # "number" \/ LessOrEqualZero(capacity) \/ ~NumberIsInteger(capacity)
    THEN [threw |-> TRUE, self |-> Undefined]
    ELSE IF ~includesDataType(dataType)
         THEN [threw |-> TRUE, self |-> Undefined]
         ELSE [threw |-> FALSE, self |-> CircularHistory(capacity.tenths \div 10, dataType.str)]

\* before any constructor call: no object, nothing stored
InitNew ==
    /\ state = Undefined
    /\ lastOp = "none"
    /\ lastArg = Undefined
    /\ threw = FALSE
    /\ pre = Undefined
    /\ run = NoRun
    /\ sinceCommit = NoCommit
    /\ sinceClear = FALSE
    /\ backsAfter = NoBacks
    /\ redo = NoRedo
    /\ trip = NoTrip
    /\ fresh = NoFresh
    /\ walk = NoWalk
    /\ sat = NoSat
    /\ hist = NoHist
    /\ ret = Undefined
    /\ shadow = NoShadow
    /\ dumped = NoDump
    /\ written = {}
    /\ observe = "none"
    /\ other = Undefined
    /\ acted = 1

\* one constructor call, on a new object each time
Constructing(capacity, dataType) ==
    /\ state' = New(capacity, dataType).self
    /\ threw' = New(capacity, dataType).threw
    /\ lastOp' = "new"
    /\ lastArg' = [capacity |-> capacity, dataType |-> dataType]
    /\ pre' = Undefined
    /\ ret' = Undefined
    /\ UNCHANGED <<trackers, obsVars, pairVars>>

Construct ==
    \E capacity \in CapacityArgs, dataType \in DataTypeArgs :
        /\ ~New(capacity, dataType).threw
        /\ Constructing(capacity, dataType)

ConstructThrow ==
    \E capacity \in CapacityArgs, dataType \in DataTypeArgs :
        /\ New(capacity, dataType).threw
        /\ Constructing(capacity, dataType)

NextNew == Construct \/ ConstructThrow

SpecNew == InitNew /\ [][NextNew]_vars

\* ------------------------------------------------- two-instance system
\* Two histories alive at once.  STATE holds one entry per object: that of
\* instance 1 is state, that of instance 2 is other.

\* STATE keyed by one key for every object
stateKey_Single(this) == 1

\* the key under which STATE.set(this, ...) stores and STATE.get(this) finds
\* the private state: the object itself
stateKey(this) == this

\* STATE.get(this)
Entry(this) == IF stateKey(this) = 1 THEN state ELSE other

\* what the public methods show of instance this
ObservedOf(this) == Observed(Entry(this))

\* the data types the two instances are constructed with
PairDataTypes == {"symbol", "boolean"}

\* both constructed, instance 1 first
InitPair ==
    /\ \E c1 \in 1..MaxPairCapacity, c2 \in 1..MaxPairCapacity,
          d1 \in PairDataTypes, d2 \in PairDataTypes :
           /\ state = IF stateKey(2) = 1 THEN CircularHistory(c2, d2)
                      ELSE CircularHistory(c1, d1)
           /\ other = IF stateKey(2) = 1 THEN Undefined ELSE CircularHistory(c2, d2)
    /\ acted = 2
    /\ lastOp = "new"
    /\ lastArg = Undefined
    /\ threw = FALSE
    /\ pre = Undefined
    /\ run = NoRun
    /\ sinceCommit = NoCommit
    /\ sinceClear = FALSE
    /\ backsAfter = NoBacks
    /\ redo = NoRedo
    /\ trip = NoTrip
    /\ fresh = NoFresh
    /\ walk = NoWalk
    /\ sat = NoSat
    /\ hist = NoHist
    /\ ret = Undefined
    /\ shadow = NoShadow
    /\ dumped = NoDump
    /\ written = {}
    /\ observe = "none"

\* a method called on instance this leaves its private state as after
Calling(this, op, after) ==
    /\ state' = IF stateKey(this) = 1 THEN after ELSE state
    /\ other' = IF stateKey(this) = 1 THEN other ELSE after
    /\ lastOp' = op
    /\ UNCHANGED <<lastArg, threw, pre, ret>>
    /\ UNCHANGED <<trackers, obsVars>>

PairCommit ==
    \E this \in {1, 2}, value \in Values :
        /\ canCommit(value, Entry(this).dataType)
        /\ Entry(this).pointer < MaxPairPointer
        /\ acted' = this
        /\ Calling(this, "commit", commit(Entry(this), value))

PairMoveBackward ==
    \E this \in {1, 2} :
        /\ acted' = this
        /\ Calling(this, "moveBackward", moveBackward(Entry(this)))

PairMoveForward ==
    \E this \in {1, 2} :
        /\ acted' = this
        /\ Calling(this, "moveForward", moveForward(Entry(this)))

PairClear ==
    \E this \in {1, 2} :
        /\ acted' = this
        /\ Calling(this, "clear", clear(Entry(this)))

NextPair == PairCommit \/ PairMoveBackward \/ PairMoveForward \/ PairClear

SpecPair == InitPair /\ [][NextPair]_vars

TypeOK ==
    /\ state.capacity \in 1..MaxCapacity
    /\ state.pointer \in -1..MaxPointer
    /\ lastOp \in {"new", "commit", "moveBackward", "moveForward", "clear", "current",
                  "dump", "mutate", "getCurrentIndex", "isStartReached", "isEndReached"}

\* ------------------------------------------------------------------ claims
Min(a, b) == IF a <= b THEN a ELSE b

\* the last operation was a commit that did not throw
Committed == lastOp = "commit" /\ ~threw

\* C1: after a successful commit(v), current() is v, and any number of
\* moveForward() calls that follow leave current() at v and getCurrentIndex()
\* where the commit put it: nothing ahead of the cursor can be reached.
C1_RedoDiscard ==
    sinceCommit.active =>
        /\ current(state) = sinceCommit.value
        /\ getCurrentIndex(state) = sinceCommit.index

\* a commit made behind the newest entry, followed by two moveForward calls
C1_Witness ==
    /\ sinceCommit.active
    /\ sinceCommit.ahead
    /\ sinceCommit.fwds >= 2
    /\ lastOp = "moveForward"

\* C2: after capacity+1 consecutive successful commits on a fresh history,
\* dump(true) has length capacity and current() is the last committed value.
C2_WrapAfterCapacityPlusOne ==
    (run.phase = "commits" /\ Len(run.vals) = state.capacity + 1) =>
        /\ Len(dump(state, TRUE)) = state.capacity
        /\ current(state) = run.vals[Len(run.vals)]

\* capacity+1 commits on a history of capacity at least 2, first and last differ
C2_Witness ==
    /\ run.phase = "commits"
    /\ Len(run.vals) = state.capacity + 1
    /\ state.capacity >= 2
    /\ run.vals[1] # run.vals[Len(run.vals)]
    /\ Committed

\* C3: after n >= 1 commits v1..vn on a fresh history, with m = min(n, capacity),
\* the j-th moveBackward (1 <= j <= m-1) makes current() v(n-j); after the
\* (m-1)-th, the j-th moveForward makes current() v(n-m+1+j) until vn is
\* reached, and further moveForward calls leave it at vn.
C3_NavigationRange ==
    LET n == Len(run.vals)
        m == Min(n, state.capacity)
    IN  /\ (run.phase = "back" /\ run.backs <= m - 1) =>
               current(state) = run.vals[n - run.backs]
        /\ (run.phase = "fwd" /\ run.backs = m - 1) =>
               current(state) = run.vals[Min(n, n - m + 1 + run.fwds)]

\* a wrapped history walked back to its oldest entry and forward past the newest
C3_Witness ==
    /\ run.phase = "fwd"
    /\ Len(run.vals) > state.capacity
    /\ state.capacity >= 3
    /\ run.backs = state.capacity - 1
    /\ run.fwds > run.backs

\* C4: whenever the cursor is on the oldest navigable entry, moveBackward()
\* makes current() Empty and the moveForward() right after it makes current()
\* that oldest entry again, for every capacity and also after wrap-around.
C4_RoundTripAtOldest ==
    /\ trip.stage = "back" => current(state) = FLAGS.empty
    /\ trip.stage = "fwd" => current(state) = trip.entry

\* C5: after n > capacity commits v1..vn on a fresh history no number of
\* moveBackward() calls makes current() Empty, and from the (capacity-1)-th
\* call on current() stays v(n-capacity+1) and getCurrentIndex() stays put.
C5_NoEmptyAfterWrap ==
    LET n == Len(run.vals)
        c == state.capacity
    IN  (n > c /\ run.phase \in {"commits", "back"}) =>
            /\ current(state) # FLAGS.empty
            /\ run.backs >= c - 1 =>
                   /\ current(state) = run.vals[n - c + 1]
                   /\ getCurrentIndex(state) = makeIndex(n - c, c)

\* the slot that held the j-th entry ahead of the cursor before the last
\* operation still holds it
StillPresent(j) ==
    LET i == makeIndex(pre.pointer + j, state.capacity)
    IN  /\ i # getCurrentIndex(state)
        /\ ~isItemEmpty(state.buffer[i])
        /\ state.buffer[i] = pre.buffer[i]

\* the last operation was a commit made after k moveBackward calls that
\* directly followed a commit, with 0 < k < navigatedItemsCount
CommittedAfterBacks ==
    /\ Committed
    /\ redo.active
    /\ 0 < redo.k
    /\ redo.k < redo.window

\* C6 (as claimed): committing after k backward moves, 0 < k < navigatedCount,
\* discards the k entries that were ahead: none of them is in the next dump(true).
C6_DiscardsAllAhead ==
    CommittedAfterBacks => \A j \in 1..redo.k : ~StillPresent(j)

\* C6 (amended): such a commit overwrites exactly one slot, the one at the new
\* cursor position; every other slot, and so every other entry that was ahead,
\* is unchanged and still part of the next dump(true).
C6_OverwritesOnlyNext ==
    CommittedAfterBacks =>
        /\ getCurrentIndex(state) = makeIndex(pre.pointer + 1, state.capacity)
        /\ state.buffer[getCurrentIndex(state)] = lastArg
        /\ \A i \in 0..(state.capacity - 1) :
               i # getCurrentIndex(state) => state.buffer[i] = pre.buffer[i]
        /\ Len(dump(state, TRUE)) >= Len(dump(pre, TRUE))

\* a commit after two backward moves that leaves the second entry ahead in place
C6_Witness ==
    /\ CommittedAfterBacks
    /\ redo.k >= 2
    /\ StillPresent(2)
    /\ state.buffer[makeIndex(pre.pointer + 2, state.capacity)] # lastArg

\* C7: after clear(), any sequence of moveBackward()/moveForward() calls leaves
\* current() Empty and getCurrentIndex() -1 until the next commit.
C7_EmptyAfterClear ==
    sinceClear =>
        /\ current(state) = FLAGS.empty
        /\ getCurrentIndex(state) = -1

\* C8: isEndReached() is true right after construction and right after every
\* successful commit.
C8_EndReachedAfterCommit ==
    (lastOp = "new" \/ Committed) => isEndReached(state)

\* a commit made while the cursor was behind the newest entry
C8_Witness ==
    /\ Committed
    /\ ~isEndReached(pre)
    /\ pre.pointer >= 0

\* C9: isEndReached() is true exactly in the states where moveForward() is a
\* no-op, i.e. leaves current() and getCurrentIndex() unchanged.
C9_EndReachedIffForwardNoOp ==
    lastOp = "moveForward" =>
        (isEndReached(pre) <=>
            /\ current(state) = current(pre)
            /\ getCurrentIndex(state) = getCurrentIndex(pre))

\* C10: isStartReached() is true exactly in the states where moveBackward() is
\* a no-op: there it leaves cursor, navigatedItemsCount, current() and
\* getCurrentIndex() unchanged, and in every other state it changes the cursor.
C10_StartReachedIffBackwardNoOp ==
    lastOp = "moveBackward" =>
        /\ isStartReached(pre) =>
               /\ state.pointer = pre.pointer
               /\ state.navigatedItemsCount = pre.navigatedItemsCount
               /\ current(state) = current(pre)
               /\ getCurrentIndex(state) = getCurrentIndex(pre)
        /\ ~isStartReached(pre) => state.pointer # pre.pointer

\* the steps j of 1..n whose commit landed in physical slot i
LandedIn(i, n, capacity) == {j \in 1..n : (j - 1) % capacity = i}

Max(S) == CHOOSE x \in S : \A y \in S : y <= x

\* C11: on a fresh history, after n >= 1 consecutive commits v1..vn the
\* current index is (n-1) mod capacity, current() is vn, and every physical
\* slot i of dump() holds the latest vj with (j-1) mod capacity = i, or a hole
\* when no commit landed there.
C11_WrapAroundLayout ==
    (run.phase = "commits" /\ Len(run.vals) >= 1) =>
        LET n == Len(run.vals)
            c == state.capacity
        IN  /\ getCurrentIndex(state) = (n - 1) % c
            /\ current(state) = run.vals[n]
            /\ Len(dump(state, FALSE)) = c
            /\ \A i \in 0..(c - 1) :
                   dump(state, FALSE)[i + 1] =
                       IF LandedIn(i, n, c) = {} THEN Undefined
                       ELSE run.vals[Max(LandedIn(i, n, c))]

C11_Witness ==
    /\ Committed
    /\ run.phase = "commits"
    /\ state.capacity >= 2
    /\ Len(run.vals) > state.capacity
    /\ run.vals[Len(run.vals)] # run.vals[1]

\* C12: on a freshly constructed history with no commits, moveBackward and
\* moveForward calls change nothing (current() stays Empty, isStartReached()
\* and isEndReached() stay true, dump(true) stays empty), and the commit that
\* follows gives dump(true) = [v], current index 0 and current() = v.
C12_FreshNavigationNoOp ==
    /\ fresh.stage \in {"new", "nav"} =>
           /\ state = CircularHistory(state.capacity, state.dataType)
           /\ current(state) = FLAGS.empty
           /\ isStartReached(state)
           /\ isEndReached(state)
           /\ dump(state, TRUE) = <<>>
    /\ fresh.stage = "commit" =>
           /\ state = commit(CircularHistory(state.capacity, state.dataType), fresh.value)
           /\ dump(state, TRUE) = <<fresh.value>>
           /\ getCurrentIndex(state) = 0
           /\ current(state) = fresh.value

C12_Witness ==
    /\ fresh.stage = "commit"
    /\ fresh.back
    /\ fresh.fwd
    /\ state.capacity >= 2

C14_MismatchThrowsUnchanged ==
    (lastOp = "commit" /\ TypeOf(lastArg) # pre.dataType) =>
        /\ threw
        /\ state.pointer = pre.pointer
        /\ state.navigatedItemsCount = pre.navigatedItemsCount
        /\ state.navigationUpperBound = pre.navigationUpperBound
        /\ state.buffer = pre.buffer
        /\ state = pre

C14_Witness ==
    /\ lastOp = "commit"
    /\ threw
    /\ lastArg.kind = "string"
    /\ pre.dataType = "number"
    /\ pre.pointer >= pre.capacity
    /\ pre.navigatedItemsCount < pre.navigationUpperBound

\* C15: on a history whose dataType is "object", commit(null) throws and
\* leaves the state unchanged.
C15_NullRejected ==
    (lastOp = "commit" /\ lastArg = Null /\ pre.dataType = "object") =>
        (threw /\ state = pre)

\* C16: current() right after a successful commit(v) is never the Empty
\* sentinel, and current() is Empty only when the cursor is -1 or the
\* addressed slot is a hole.
C16_EmptyDistinguishable ==
    /\ Committed => current(state) # FLAGS.empty
    /\ current(state) = FLAGS.empty =>
           \/ state.pointer = -1
           \/ state.buffer[state.pointer % state.capacity] = Undefined

\* C17: getCurrentIndex() is -1 whenever the cursor is -1, for every
\* capacity, and otherwise is cursor mod capacity, within 0..capacity-1; so
\* it is -1 exactly when no value is selected.
C17_IndexMinusOneIffNoSelection ==
    /\ state.pointer = -1 => getCurrentIndex(state) = -1
    /\ state.pointer >= 0 =>
           /\ getCurrentIndex(state) = state.pointer % state.capacity
           /\ getCurrentIndex(state) \in 0..(state.capacity - 1)
    /\ getCurrentIndex(state) = -1 <=> state.pointer = -1

\* C18: current() returns Empty if the cursor is -1 or the slot at cursor mod
\* capacity is a hole, otherwise the value stored in that slot, and it
\* changes no state.
C18_CurrentReadsSlot ==
    lastOp = "current" =>
        /\ state = pre
        /\ ret = IF pre.pointer = -1 THEN FLAGS.empty
                 ELSE IF pre.buffer[pre.pointer % pre.capacity] = Undefined
                      THEN FLAGS.empty
                      ELSE pre.buffer[pre.pointer % pre.capacity]

C18_Witness ==
    /\ lastOp = "current"
    /\ pre.capacity >= 2
    /\ pre.pointer >= 1
    /\ pre.navigatedItemsCount < pre.navigationUpperBound
    /\ ret.kind = "number"
    /\ \E i \in 0..(pre.capacity - 1) : pre.buffer[i] # ret


\* C19: clear() leaves cursor -1, window (0,0), every slot a hole and
\* capacity and dataType as they were, and from then on every operation
\* returns what it returns on a freshly constructed history of that capacity
\* and dataType given the same calls.
C19_ClearIsFresh ==
    /\ lastOp = "clear" =>
           /\ state.pointer = -1
           /\ state.navigatedItemsCount = 0
           /\ state.navigationUpperBound = 0
           /\ \A i \in 0..(state.capacity - 1) : state.buffer[i] = Undefined
           /\ state.capacity = pre.capacity
           /\ state.dataType = pre.dataType
           /\ state = CircularHistory(pre.capacity, pre.dataType)
    /\ shadow.active =>
           /\ threw = shadow.threw
           /\ ret = shadow.ret
           /\ Observed(state) = Observed(shadow.self)
           /\ state.capacity = shadow.self.capacity
           /\ state.dataType = shadow.self.dataType

C19_Witness ==
    /\ shadow.active
    /\ lastOp = "current"
    /\ state.pointer >= 1
    /\ state.navigatedItemsCount < state.navigationUpperBound
    /\ ret # FLAGS.empty

\* a sequence without its holes, order kept
RECURSIVE WithoutHoles(_)
WithoutHoles(array) ==
    IF array = <<>> THEN <<>>
    ELSE IF Head(array) = Undefined THEN WithoutHoles(Tail(array))
         ELSE <<Head(array)>> \o WithoutHoles(Tail(array))

\* C20: dump() returns a copy of the slot array in physical order, of
\* length capacity, with a hole for every never-committed slot; dump(true)
\* is dump() without the holes, order kept; dump changes no state, and
\* modifying the returned array does not change the history.
C20_DumpIsCopy ==
    /\ lastOp = "dump" =>
           /\ state = pre
           /\ lastArg = FALSE =>
                  /\ Len(ret) = pre.capacity
                  /\ \A i \in 0..(pre.capacity - 1) :
                         /\ ret[i + 1] = pre.buffer[i]
                         /\ i \notin written <=> ret[i + 1] = Undefined
           /\ lastArg = TRUE => ret = WithoutHoles(dump(pre, FALSE))
    /\ lastOp = "mutate" => state = pre

C20_Witness ==
    /\ lastOp = "mutate"
    /\ written # {}
    /\ Cardinality(written) < state.capacity
    /\ state.pointer >= 1
    /\ Len(dumped.array) = state.capacity
    /\ \E i \in 0..(state.capacity - 1) :
           state.buffer[i] # Undefined /\ dumped.array[i + 1] = MutationValue

\* C23: in every reachable state 0 <= navigatedItemsCount <=
\* navigationUpperBound <= capacity - 1 and the cursor is -1 or a
\* non-negative integer, for every capacity >= 1.
C23_StateRange ==
    /\ 0 <= state.navigatedItemsCount
    /\ state.navigatedItemsCount <= state.navigationUpperBound
    /\ state.navigationUpperBound <= state.capacity - 1
    /\ state.pointer \in Int
    /\ state.pointer >= -1

C23_Witness ==
    /\ state.capacity >= 3
    /\ state.pointer >= state.capacity
    /\ 0 < state.navigatedItemsCount
    /\ state.navigatedItemsCount < state.navigationUpperBound
    /\ state.navigationUpperBound = state.capacity - 1

\* C24: a successful commit in a state with navigatedItemsCount =
\* capacity - 1 leaves navigatedItemsCount = navigationUpperBound =
\* capacity - 1; in every other state both become the old
\* navigatedItemsCount + 1.
C24_WindowUpdateOnCommit ==
    Committed =>
        IF pre.navigatedItemsCount = pre.capacity - 1
        THEN /\ state.navigatedItemsCount = pre.capacity - 1
             /\ state.navigationUpperBound = pre.capacity - 1
        ELSE /\ state.navigatedItemsCount = pre.navigatedItemsCount + 1
             /\ state.navigationUpperBound = pre.navigatedItemsCount + 1

C24_Witness ==
    /\ Committed
    /\ pre.capacity >= 3
    /\ pre.navigatedItemsCount # pre.capacity - 1
    /\ pre.navigationUpperBound > pre.navigatedItemsCount + 1
    /\ state.navigationUpperBound < pre.navigationUpperBound

\* C26: a successful commit(v) advances the cursor by exactly one, writes v
\* at physical index (new cursor) mod capacity and leaves every other slot,
\* the capacity and the dataType unchanged, from every reachable state
\* including cursor = -1.
C26_CommitFrame ==
    Committed =>
        /\ state.pointer = pre.pointer + 1
        /\ state.buffer[state.pointer % state.capacity] = lastArg
        /\ \A i \in 0..(pre.capacity - 1) :
               i # state.pointer % state.capacity => state.buffer[i] = pre.buffer[i]
        /\ DOMAIN state.buffer = 0..(pre.capacity - 1)
        /\ state.capacity = pre.capacity
        /\ state.dataType = pre.dataType

C26_Witness ==
    /\ Committed
    /\ pre.capacity >= 2
    /\ pre.pointer >= pre.capacity - 1
    /\ pre.buffer[state.pointer % state.capacity] \notin {Undefined, lastArg}
    /\ \E i \in 0..(pre.capacity - 1) :
           i # state.pointer % state.capacity /\ state.buffer[i] # Undefined

\* C27: moveBackward() from cursor 0 sets the cursor to -1 and leaves
\* navigatedItemsCount unchanged (never below 0); from cursor > 0 with
\* navigatedItemsCount > 0 it decrements cursor and navigatedItemsCount by
\* one each.
C27_MoveBackwardStep ==
    lastOp = "moveBackward" =>
        /\ pre.pointer = 0 =>
               /\ state.pointer = -1
               /\ state.navigatedItemsCount = pre.navigatedItemsCount
               /\ state.navigatedItemsCount >= 0
        /\ (pre.pointer > 0 /\ pre.navigatedItemsCount > 0) =>
               /\ state.pointer = pre.pointer - 1
               /\ state.navigatedItemsCount = pre.navigatedItemsCount - 1

C27_Witness ==
    /\ lastOp = "moveBackward"
    /\ pre.pointer = 0
    /\ pre.navigatedItemsCount > 0
    /\ pre.navigatedItemsCount < pre.navigationUpperBound
    /\ state.pointer = -1

\* C28: moveForward() with cursor -1 and navigationUpperBound > 0 sets the
\* cursor to 0 and leaves navigatedItemsCount unchanged; otherwise it is a
\* no-op when navigatedItemsCount = navigationUpperBound, and else
\* increments cursor and navigatedItemsCount by one each.
C28_MoveForwardStep ==
    lastOp = "moveForward" =>
        IF pre.pointer = -1 /\ pre.navigationUpperBound > 0
        THEN /\ state.pointer = 0
             /\ state.navigatedItemsCount = pre.navigatedItemsCount
        ELSE IF pre.navigatedItemsCount = pre.navigationUpperBound
             THEN state = pre
             ELSE /\ state.pointer = pre.pointer + 1
                  /\ state.navigatedItemsCount = pre.navigatedItemsCount + 1

C28_Witness ==
    /\ lastOp = "moveForward"
    /\ pre.pointer = -1
    /\ pre.navigationUpperBound > 0
    /\ pre.navigatedItemsCount = pre.navigationUpperBound
    /\ state.pointer = 0

\* C29: in every reachable state every non-hole slot holds a value whose
\* runtime type is the configured dataType, and for dataType "object" no
\* slot holds null.
C29_SlotsHaveDataType ==
    \A i \in 0..(state.capacity - 1) :
        state.buffer[i] # Undefined =>
            /\ TypeOf(state.buffer[i]) = state.dataType
            /\ state.dataType = "object" => state.buffer[i] # Null

\* C30: moveBackward() and moveForward() never change the slot array,
\* navigationUpperBound, capacity or dataType, so dump() is the same before
\* and after; current(), dump(), getCurrentIndex(), isStartReached() and
\* isEndReached() change no state; slots change only through commit and
\* clear.
C30_NavigationAndReadFrame ==
    /\ lastOp \in {"moveBackward", "moveForward"} =>
           /\ state.buffer = pre.buffer
           /\ state.navigationUpperBound = pre.navigationUpperBound
           /\ state.capacity = pre.capacity
           /\ state.dataType = pre.dataType
           /\ dump(state, FALSE) = dump(pre, FALSE)
           /\ dump(state, TRUE) = dump(pre, TRUE)
    /\ lastOp \in {"current", "dump", "getCurrentIndex", "isStartReached", "isEndReached"} =>
           state = pre
    /\ state.buffer # pre.buffer => (lastOp \in {"commit", "clear"} /\ ~threw)

C30_Witness ==
    /\ lastOp = "moveBackward"
    /\ pre.capacity >= 2
    /\ pre.pointer >= pre.capacity
    /\ state.pointer = pre.pointer - 1
    /\ pre.navigatedItemsCount < pre.navigationUpperBound

\* C21: construction throws, storing no instance, unless capacity is a
\* number that is a strictly positive integer and dataType is one of the
\* six tags; with valid arguments it yields an empty history: cursor -1,
\* window (0,0), capacity holes.
C21_ConstructionValidates ==
    lastOp = "new" =>
        LET c == lastArg.capacity
            d == lastArg.dataType
            valid == /\ c.kind = "number"
                     /\ c.str = ""
                     /\ c.tenths > 0
                     /\ c.tenths % 10 = 0
                     /\ d.kind = "string"
                     /\ d.str \in {"number", "string", "bigint", "boolean", "symbol", "object"}
        IN  IF valid
            THEN /\ ~threw
                 /\ state.pointer = -1
                 /\ state.navigatedItemsCount = 0
                 /\ state.navigationUpperBound = 0
                 /\ state.capacity = c.tenths \div 10
                 /\ state.dataType = d.str
                 /\ DOMAIN state.buffer = 0..(state.capacity - 1)
                 /\ \A i \in DOMAIN state.buffer : state.buffer[i] = Undefined
            ELSE /\ threw
                 /\ state = Undefined

C21_Witness ==
    /\ lastOp = "new"
    /\ threw
    /\ lastArg.capacity = Num(35)
    /\ lastArg.dataType = Str("number")

\* C22: after commits, backward moves and further commits, moveBackward()
\* repeated until getCurrentIndex() = -1 and then successive moveForward()
\* calls visit exactly the surviving entries, those at cursor positions
\* 0..newest in commit order, then stay at the newest; a discarded entry
\* is never visited (commits a,b,c, two moveBackward, commit d: a, d, d).
C22_ForwardVisitsSurvivors ==
    /\ walk.stage \in {"empty", "fwd"} => walk.on
    /\ walk.stage = "empty" => current(state) = FLAGS.empty
    /\ walk.stage = "fwd" =>
           /\ current(state) = walk.log[Min(walk.steps, Len(walk.log))]
           /\ state.pointer = Min(walk.steps, Len(walk.log)) - 1

C22_Witness ==
    /\ walk.stage = "fwd"
    /\ walk.steps > Len(walk.log)
    /\ Len(walk.log) >= 2
    /\ \E i \in 0..(state.capacity - 1) :
           /\ state.buffer[i] # Undefined
           /\ \A j \in 1..Len(walk.log) : walk.log[j] # state.buffer[i]

\* C25 as stated: once navigatedItemsCount has reached capacity - 1, every
\* later successful commit with no clear in between, whatever navigation
\* happens in between, leaves navigatedItemsCount = navigationUpperBound =
\* capacity - 1.
C25_SaturationPermanent ==
    (Committed /\ sat.ever) =>
        /\ state.navigatedItemsCount = state.capacity - 1
        /\ state.navigationUpperBound = state.capacity - 1

\* C25: once navigatedItemsCount has reached capacity - 1, every later
\* successful commit with no moveBackward and no clear in between leaves
\* navigatedItemsCount = navigationUpperBound = capacity - 1; a commit
\* after moveBackward calls have lowered navigatedItemsCount to m <
\* capacity - 1 sets both to m + 1.
C25_SaturationUntilBackward ==
    /\ (Committed /\ sat.held) =>
           /\ state.navigatedItemsCount = state.capacity - 1
           /\ state.navigationUpperBound = state.capacity - 1
    /\ (Committed /\ sat.ever /\ pre.navigatedItemsCount < pre.capacity - 1) =>
           /\ ~sat.held
           /\ state.navigatedItemsCount = pre.navigatedItemsCount + 1
           /\ state.navigationUpperBound = pre.navigatedItemsCount + 1

C25_Witness ==
    /\ Committed
    /\ sat.ever
    /\ ~sat.held
    /\ pre.navigationUpperBound = pre.capacity - 1
    /\ state.navigationUpperBound < state.capacity - 1

\* C34: in every reachable state, for every capacity >= 1, whenever
\* moveBackward() changes the state an immediately following moveForward()
\* restores the exact previous state: cursor, navigatedItemsCount,
\* navigationUpperBound and slots.
C34_UndoInvertible ==
    moveBackward(state) # state => moveForward(moveBackward(state)) = state

\* C35: in every reachable state, whenever moveForward() changes the state
\* an immediately following moveBackward() restores the exact previous
\* state: cursor, navigatedItemsCount, navigationUpperBound and slots.
C35_RedoInvertible ==
    /\ moveForward(state) # state => moveBackward(moveForward(state)) = state
    /\ (lastOp = "moveForward" /\ state # pre) => moveBackward(state) = pre

C35_Witness ==
    /\ lastOp = "moveForward"
    /\ state # pre
    /\ pre.pointer = -1
    /\ pre.navigatedItemsCount > 0
    /\ pre.navigatedItemsCount < pre.navigationUpperBound
    /\ moveBackward(state) = pre

\* C36: in every reachable state with cursor >= 0 the slot at cursor mod
\* capacity is not a hole, so current() returns Empty exactly when the
\* cursor is -1 and otherwise the content of the slot.
C36_CursorNeverOnHole ==
    /\ state.pointer >= 0 => state.buffer[state.pointer % state.capacity] # Undefined
    /\ state.pointer >= 0 => current(state) = state.buffer[state.pointer % state.capacity]
    /\ state.pointer = -1 => current(state) = FLAGS.empty

C36_Witness ==
    /\ lastOp = "moveForward"
    /\ state.pointer >= 1
    /\ state.navigatedItemsCount = state.navigationUpperBound
    /\ \E i \in 0..(state.capacity - 1) : state.buffer[i] = Undefined

\* C37: whenever the cursor is >= 0, getCurrentIndex() is the physical
\* position of the current value: current() = dump()[getCurrentIndex()].
C37_IndexLocatesCurrent ==
    state.pointer >= 0 =>
        /\ getCurrentIndex(state) \in 0..(state.capacity - 1)
        /\ current(state) = dump(state, FALSE)[getCurrentIndex(state) + 1]

C37_Witness ==
    /\ state.pointer > state.capacity
    /\ state.capacity >= 2
    /\ state.navigatedItemsCount < state.navigationUpperBound
    /\ \E i \in 0..(state.capacity - 1) : state.buffer[i] # current(state)

\* C32: an entry written by a commit at cursor position q is live until a
\* later commit writes at a position <= q or at position q + capacity, or
\* until clear.  In every reachable state with cursor q >= 0 the entry at q
\* is live and current() returns exactly its value.
C32_CurrentIsLive ==
    state.pointer >= 0 =>
        /\ state.pointer \in DOMAIN hist.live
        /\ current(state) = hist.live[state.pointer]

C32_Witness ==
    /\ lastOp = "moveBackward"
    /\ hist.top >= state.capacity
    /\ state.pointer >= 1
    /\ state.navigatedItemsCount < state.navigationUpperBound
    /\ \E i \in 0..(state.capacity - 1) :
           /\ state.buffer[i] # Undefined
           /\ \A q \in DOMAIN hist.live : hist.live[q] # state.buffer[i]

\* the state after n moveForward() calls
RECURSIVE Forwards(_, _)
Forwards(self, n) == IF n = 0 THEN self ELSE Forwards(moveForward(self), n - 1)

\* C33: after a successful commit(v) followed by any finite sequence of
\* moveBackward()/moveForward() calls, capacity + 1 further moveForward()
\* calls end in a state with current() = v and isEndReached() true, for
\* every capacity >= 1.
C33_NewestRecoverable ==
    DOMAIN hist.live # {} =>
        LET end == Forwards(state, state.capacity + 1)
        IN  /\ current(end) = hist.live[Max(DOMAIN hist.live)]
            /\ isEndReached(end)

\* C38: holes form a suffix of the slot array: with k = min(capacity, 1 +
\* the largest cursor value reached since construction or the last clear),
\* slots 0..k-1 are non-holes and slots k..capacity-1 are holes, and
\* dump(true) has length k.
C38_HolesFormSuffix ==
    LET k == Min(state.capacity, 1 + hist.top)
    IN  /\ k \in 0..state.capacity
        /\ \A i \in 0..(state.capacity - 1) :
               (i < k) <=> (state.buffer[i] # Undefined)
        /\ Len(dump(state, TRUE)) = k

C38_Witness ==
    /\ hist.top >= 1
    /\ 1 + hist.top < state.capacity
    /\ state.pointer < hist.top
    /\ lastOp = "commit"
    /\ ~threw

\* C31: with two histories alive at once, no operation on one instance
\* changes what current(), dump(), getCurrentIndex(), isStartReached() and
\* isEndReached() return on the other, for every interleaving of their
\* operations.
C31_InstanceIsolation ==
    [][\A this \in {1, 2} : this # acted' => ObservedOf(this)' = ObservedOf(this)]_vars

C31_Witness ==
    /\ acted = 1
    /\ lastOp = "commit"
    /\ state.pointer >= 1
    /\ other # Undefined
    /\ other.pointer >= 1
    /\ other.dataType = state.dataType
    /\ other.capacity = state.capacity
    /\ other.buffer # state.buffer

====
